---- MODULE Spec2Model ----
(***************************************************************************)
(* The per-subject merge of assessment.ipynb (cell 4): the output          *)
(* directory is reset, os.walk visits ./raw_data, every directory without  *)
(* subdirectories gets one gzip artifact opened in append mode, and every  *)
(* .json / .csv file of it is read chunk by chunk, each chunk serialised   *)
(* as JSON lines through a fresh StringIO and written to the gzip stream.  *)
(* Cell 5 reads every artifact back.                                       *)
(***************************************************************************)
EXTENDS Integers, Sequences, FiniteSets, TLC

\* ------------------------------------------------------------------ bounds
\* chunksize ranges over 1..MaxChunkSize (the notebook fixes it at 1000).
MaxChunkSize == 3
\* The cell is executed at most MaxRuns times over the same ./raw_data.
MaxRuns == 2
\* At most MaxIOErrors reads of a source file fail (an unreadable source).
MaxIOErrors == 1

\* ------------------------------------------------------------- source data
\* One row of a .csv file or one line of a .json file: the fields it gives a
\* value for; bad marks a row / line the pandas parser cannot decode.
Row(i, ks) == [id |-> i, keys |-> ks, bad |-> FALSE]
BadRow(i) == [id |-> i, keys |-> {}, bad |-> TRUE]

\* A file name is kept split as os.path.splitext splits it.
File(stem, ext, hdr, rs) == [name |-> <<stem, ext>>, header |-> hdr, rows |-> rs]
Dir(n, ds, fs) == [name |-> n, dirs |-> ds, files |-> fs]

\* Two leaf subjects; tracks mixes a .csv, a .json whose lines have different
\* keys, and a .txt file.
TreeFlat ==
    Dir("raw_data",
        << Dir("tracks", << >>,
               << File("tracks_0", ".csv", {"a", "b"},
                       << Row(1, {"a", "b"}), Row(2, {"a"}), Row(3, {"a", "b"}) >>),
                  File("notes", ".txt", {}, << Row(4, {"a"}) >>),
                  File("tracks_1", ".json", {},
                       << Row(5, {"a"}), Row(6, {"a", "c"}) >>) >>),
           Dir("orders", << >>,
               << File("orders_0", ".json", {}, << Row(7, {"a"}) >>) >>) >>,
        << >>)

\* A directory with a subdirectory and files of its own, and two leaf
\* directories of the same name at different depths.
TreeNested ==
    Dir("raw_data",
        << Dir("grp",
               << Dir("x", << >>,
                      << File("x_0", ".csv", {"a"}, << Row(1, {"a"}) >>) >>) >>,
               << File("grp_0", ".csv", {"a"}, << Row(2, {"a"}) >>) >>),
           Dir("x", << >>,
               << File("x_1", ".json", {}, << Row(3, {"a"}) >>) >>) >>,
        << File("top", ".json", {}, << Row(4, {"a"}) >>) >>)

\* A directory with subdirectories of distinct names.
TreeDeep ==
    Dir("raw_data",
        << Dir("grp",
               << Dir("p", << >>,
                      << File("p_0", ".json", {}, << Row(1, {"a"}), Row(2, {"a"}) >>) >>),
                  Dir("q", << >>, << >>) >>,
               << File("grp_0", ".json", {}, << Row(3, {"a"}) >>) >>),
           Dir("r", << >>,
               << File("r_0", ".csv", {"a"}, << Row(4, {"a"}), Row(5, {"a"}) >>) >>) >>,
        << >>)

\* Malformed input: the third row of a .csv, the second line of a .json.
TreeBad ==
    Dir("raw_data",
        << Dir("tracks", << >>,
               << File("tracks_0", ".csv", {"a"},
                       << Row(1, {"a"}), Row(2, {"a"}), BadRow(3), Row(4, {"a"}) >>),
                  File("tracks_1", ".json", {}, << Row(5, {"a"}) >>) >>),
           Dir("orders", << >>,
               << File("orders_0", ".json", {},
                       << Row(6, {"a"}), BadRow(7) >>) >>) >>,
        << >>)

\* Leaf directories holding no recognized file, and an empty .json file.
TreeEmpty ==
    Dir("raw_data",
        << Dir("empty", << >>, << >>),
           Dir("docs", << >>,
               << File("readme", ".txt", {}, << Row(1, {"a"}) >>),
                  File("docs_0", ".json", {}, << >>) >>) >>,
        << >>)

\* ./raw_data itself has no subdirectory.
TreeRootLeaf ==
    Dir("raw_data", << >>,
        << File("a", ".csv", {"a"},
                << Row(1, {"a"}), Row(1, {"a"}), Row(2, {"a"}), Row(3, {"a"}) >>) >>)

\* A directory with a subdirectory of its own name, and a file of its own.
TreeSameName ==
    Dir("raw_data",
        << Dir("a",
               << Dir("a", << >>,
                      << File("a_0", ".json", {}, << Row(1, {"a"}) >>) >>) >>,
               << File("a_1", ".json", {}, << Row(2, {"a"}) >>) >>) >>,
        << >>)

Trees ==
    {TreeFlat, TreeNested, TreeDeep, TreeBad, TreeEmpty, TreeRootLeaf, TreeSameName}

ChunkSizes == 1..MaxChunkSize

\* --------------------------------------------------------------- os.walk
\* os.path.basename of a path kept as its sequence of components.
Basename(path) == path[Len(path)]

\* os.walk(top), top-down: the directory itself, then each subdirectory in
\* list order; every directory is visited whether or not the caller skips it.
RECURSIVE Walk(_, _), WalkAll(_, _)
Walk(node, path) ==
    << [root |-> path,
        dirs |-> [i \in 1..Len(node.dirs) |-> node.dirs[i].name],
        files |-> node.files] >>
    \o WalkAll(node.dirs, path)
WalkAll(nodes, path) ==
    IF nodes = << >> THEN << >>
    ELSE Walk(Head(nodes), Append(path, Head(nodes).name)) \o WalkAll(Tail(nodes), path)

\* os.path.splitext(f): (stem, extension).
Splitext(f) == f.name

\* ---------------------------------------------------- pandas, chunk-wise
Min(a, b) == IF a <= b THEN a ELSE b

\* The next chunksize rows / lines of a file of which pos were consumed.
Chunk(rows, pos, n) == SubSeq(rows, pos + 1, Min(pos + n, Len(rows)))

\* A chunk is parsed as a whole: one bad row / line fails the chunk.
Decodable(chunk) == \A i \in 1..Len(chunk) : ~chunk[i].bad

\* A row of a DataFrame: the frame's columns, and those among them for which
\* the source row had no value (NaN, serialised null).
FrameRow(r, columns) == [id |-> r.id, fields |-> columns, nulls |-> columns \ r.keys]

\* pd.read_json(lines=True, chunksize=n): the frame of one chunk has the
\* union of the keys of the chunk's lines as its columns.
JsonFrame(lines) ==
    LET columns == UNION {lines[i].keys : i \in 1..Len(lines)}
    IN  [i \in 1..Len(lines) |-> FrameRow(lines[i], columns)]

\* pd.read_csv(chunksize=n): the columns are the file's header row.
CsvFrame(header, rows) == [i \in 1..Len(rows) |-> FrameRow(rows[i], header)]

\* Text is a sequence of tokens: a serialised object or a newline; a token
\* stands for its characters and, once encoded, for their UTF-8 bytes.
NoRec == [id |-> 0, fields |-> {}, nulls |-> {}]
Obj(r) == [nl |-> FALSE, rec |-> r]
NL == [nl |-> TRUE, rec |-> NoRec]

\* df.to_json(buffer, orient="records", lines=True): every row as one
\* object with every column, each followed by a newline (the last one too,
\* as in the pandas whose output the notebook records: cell 5 read the
\* artifacts back without error).
RECURSIVE ToJsonLines(_)
ToJsonLines(df) ==
    IF df = << >> THEN << >>
    ELSE << Obj(Head(df)), NL >> \o ToJsonLines(Tail(df))

\* str.split on newlines: the lines of a text, each the objects on it.
RECURSIVE SplitLines(_)
SplitLines(text) ==
    IF text = << >> THEN << << >> >>
    ELSE LET rest == SplitLines(Tail(text))
         IN  IF Head(text).nl THEN << << >> >> \o rest
             ELSE << << Head(text).rec >> \o Head(rest) >> \o Tail(rest)

RECURSIVE Concat(_)
Concat(seqs) == IF seqs = << >> THEN << >> ELSE Head(seqs) \o Concat(Tail(seqs))

\* ------------------------------------------------------------------ gzip
\* An artifact is a sequence of gzip members; a member is finalized (its
\* trailer written) when the stream that wrote it is closed.
NewMember == [data |-> << >>, trailer |-> FALSE]

\* gzip.open(name, "ab"): a new member after whatever the file holds.
GzipOpen(files, name) ==
    IF name \in DOMAIN files
    THEN [files EXCEPT ![name] = Append(@, NewMember)]
    ELSE files @@ (name :> << NewMember >>)

\* Mutant of GzipWrite: every write replaces what the member holds.
MutGzipWriteReplace(files, name, bytes) ==
    [files EXCEPT ![name] = [@ EXCEPT ![Len(@)].data = bytes]]

\* of.write(bytes): into the member the open stream is writing, the last one.
GzipWrite(files, name, bytes) ==
    [files EXCEPT ![name] = [@ EXCEPT ![Len(@)].data = @ \o bytes]]

\* of.close(), also what leaving the with block does.
GzipClose(files, name) ==
    [files EXCEPT ![name] = [@ EXCEPT ![Len(@)].trailer = TRUE]]

\* Cell 5, pd.read_json(lines=True, compression="gzip"): the members'
\* data decompressed in order, split into lines, blank lines dropped, every
\* line one JSON object. ok is FALSE when a member lacks its trailer or a
\* line holds more than one object.
ReadBack(artifact) ==
    LET text == Concat([i \in 1..Len(artifact) |-> artifact[i].data])
        lines == SplitLines(text)
    IN  [ok |-> /\ \A i \in 1..Len(artifact) : artifact[i].trailer
                /\ \A i \in 1..Len(lines) : Len(lines[i]) <= 1,
         recs |-> Concat(lines)]

\* ------------------------------------------------------------------ state
VARIABLES
    raw_data,        \* the source tree under ./raw_data, never written
    chunksize,       \* the chunksize= argument of read_json / read_csv
    processed_data,  \* the output directory: whether it exists, its files
    pc,              \* the statement of cell 4 that runs next
    di,              \* position of the os.walk generator
    fi,              \* position of `for f in files`
    pos,             \* rows / lines df_iterator has consumed
    df,              \* the chunk's DataFrame
    buffer,          \* the StringIO: its text and its stream position
    of,              \* the artifact whose gzip stream is open, or NoStream
    stdout,          \* what print has written during this execution
    runs,            \* executions of the cell started so far
    ioErrors         \* failed reads so far

vars == << raw_data, chunksize, processed_data, pc, di, fi, pos, df, buffer,
           of, stdout, runs, ioErrors >>

NoStream == "<none>"
NoFiles == [n \in {} |-> << >>]
Absent == [exists |-> FALSE, files |-> NoFiles]

StaleRec == [id |-> 99, fields |-> {"z"}, nulls |-> {}]
\* What an earlier execution over other data may have left behind: a complete
\* artifact, one under the name of a subject of this tree, and one whose
\* stream was never closed.
Leftover ==
    [exists |-> TRUE,
     files |-> ("old" :> << [data |-> << Obj(StaleRec), NL >>, trailer |-> TRUE] >>)
            @@ ("tracks" :> << [data |-> << Obj(StaleRec), NL >>, trailer |-> TRUE] >>)
            @@ ("x" :> << [data |-> << Obj(StaleRec) >>, trailer |-> FALSE] >>)]

\* os.walk("./raw_data") as the list it generates.
WalkList == Walk(raw_data, << ".", raw_data.name >>)
\* The (root, dirs, files) of the current iteration and the current f.
Cur == WalkList[di]
CurFile == Cur.files[fi]
\* os.path.join(outdir, f"{os.path.basename(root)}.json.gz"), named by its stem.
outfile_name == Basename(Cur.root)

\* The two lines cell 4 prints: the artifact's file name, the source file's.
Writing(name) == [what |-> "Writing", name |-> << name, ".json.gz" >>]
Processing(f) == [what |-> "Processing", name |-> f.name]

Init ==
    /\ raw_data \in Trees
    /\ chunksize \in ChunkSizes
    /\ processed_data \in {Absent, Leftover}
    /\ pc = "rmtree"
    /\ di = 1
    /\ fi = 1
    /\ pos = 0
    /\ df = << >>
    /\ buffer = [data |-> << >>, pos |-> 0]
    /\ of = NoStream
    /\ stdout = << >>
    /\ runs = 1
    /\ ioErrors = 0

\* ---------------------------------------------------------------- cell 4
\* Mutant of Rmtree: the reset replaced by os.makedirs(outdir, exist_ok=True).
MutRmtreeExistOk ==
    /\ pc = "rmtree"
    /\ processed_data' = [processed_data EXCEPT !.exists = TRUE]
    /\ di' = 1
    /\ pc' = "walk"
    /\ UNCHANGED << raw_data, chunksize, fi, pos, df, buffer, of, stdout,
                    runs, ioErrors >>

\* if os.path.exists(outdir): shutil.rmtree(outdir)
Rmtree ==
    /\ pc = "rmtree"
    /\ processed_data' = IF processed_data.exists THEN Absent ELSE processed_data
    /\ pc' = "makedirs"
    /\ UNCHANGED << raw_data, chunksize, di, fi, pos, df, buffer, of, stdout,
                    runs, ioErrors >>

\* os.makedirs("processed_data"): FileExistsError when it is there.
Makedirs ==
    /\ pc = "makedirs"
    /\ IF processed_data.exists
       THEN /\ pc' = "aborted"
            /\ UNCHANGED << processed_data, di >>
       ELSE /\ processed_data' = [exists |-> TRUE, files |-> NoFiles]
            /\ di' = 1
            /\ pc' = "walk"
    /\ UNCHANGED << raw_data, chunksize, fi, pos, df, buffer, of, stdout,
                    runs, ioErrors >>

\* Mutant of SkipDir: the `if dirs: continue` test dropped.
MutSkipDirProcessed ==
    /\ pc = "walk"
    /\ di <= Len(WalkList)
    /\ WalkList[di].dirs # << >>
    /\ stdout' = Append(stdout, Writing(Basename(WalkList[di].root)))
    /\ pc' = "open"
    /\ UNCHANGED << raw_data, chunksize, processed_data, di, fi, pos, df,
                    buffer, of, runs, ioErrors >>

\* if dirs: continue
SkipDir ==
    /\ pc = "walk"
    /\ di <= Len(WalkList)
    /\ Cur.dirs # << >>
    /\ di' = di + 1
    /\ UNCHANGED << raw_data, chunksize, processed_data, pc, fi, pos, df,
                    buffer, of, stdout, runs, ioErrors >>

\* Mutant of ReportArtifact: the print statement left out.
MutReportArtifactSilent ==
    /\ pc = "walk"
    /\ di <= Len(WalkList)
    /\ WalkList[di].dirs = << >>
    /\ pc' = "open"
    /\ UNCHANGED << raw_data, chunksize, processed_data, di, fi, pos, df,
                    buffer, of, stdout, runs, ioErrors >>

\* print(f"Writing aggregated results out to {outfile_name}")
ReportArtifact ==
    /\ pc = "walk"
    /\ di <= Len(WalkList)
    /\ Cur.dirs = << >>
    /\ stdout' = Append(stdout, Writing(outfile_name))
    /\ pc' = "open"
    /\ UNCHANGED << raw_data, chunksize, processed_data, di, fi, pos, df,
                    buffer, of, runs, ioErrors >>

\* with gzip.open(outfile_name, "ab") as of:
OpenArtifact ==
    /\ pc = "open"
    /\ processed_data' =
           [processed_data EXCEPT !.files = GzipOpen(@, outfile_name)]
    /\ of' = outfile_name
    /\ fi' = 1
    /\ pc' = "files"
    /\ UNCHANGED << raw_data, chunksize, di, pos, df, buffer, stdout, runs,
                    ioErrors >>

\* Leaving the with block, normally or by an exception: of.close().
ExitWith(files) == GzipClose(files, of)

\* for f in files: print(f"Processing file {f}")
ReportFile ==
    /\ pc = "files"
    /\ fi <= Len(Cur.files)
    /\ stdout' = Append(stdout, Processing(CurFile))
    /\ pc' = "dispatch"
    /\ UNCHANGED << raw_data, chunksize, processed_data, di, fi, pos, df,
                    buffer, of, runs, ioErrors >>

\* `for f in files` is exhausted: the with block ends, os.walk goes on.
CloseArtifact ==
    /\ pc = "files"
    /\ fi > Len(Cur.files)
    /\ processed_data' = [processed_data EXCEPT !.files = ExitWith(@)]
    /\ of' = NoStream
    /\ di' = di + 1
    /\ pc' = "walk"
    /\ UNCHANGED << raw_data, chunksize, fi, pos, df, buffer, stdout, runs,
                    ioErrors >>

\* Mutant of Branch: the second test written as an else.
MutBranchElseCsv(extenstion) == IF extenstion = ".json" THEN "json" ELSE "csv"

\* The branch `extenstion` selects: ".json", ".csv" or neither.
Branch(extenstion) ==
    IF extenstion = ".json" THEN "json"
    ELSE IF extenstion = ".csv" THEN "csv"
    ELSE "skip"

\* if extenstion == '.json': df_iterator = pd.read_json(..., chunksize=...)
OpenJson ==
    /\ pc = "dispatch"
    /\ Branch(Splitext(CurFile)[2]) = "json"
    /\ pos' = 0
    /\ pc' = "json"
    /\ UNCHANGED << raw_data, chunksize, processed_data, di, fi, df, buffer,
                    of, stdout, runs, ioErrors >>

\* if extenstion == '.csv': df_iterator = pd.read_csv(..., chunksize=...)
OpenCsv ==
    /\ pc = "dispatch"
    /\ Branch(Splitext(CurFile)[2]) = "csv"
    /\ pos' = 0
    /\ pc' = "csv"
    /\ UNCHANGED << raw_data, chunksize, processed_data, di, fi, df, buffer,
                    of, stdout, runs, ioErrors >>

\* Neither if applies: the next f.
SkipFile ==
    /\ pc = "dispatch"
    /\ Branch(Splitext(CurFile)[2]) = "skip"
    /\ fi' = fi + 1
    /\ pc' = "files"
    /\ UNCHANGED << raw_data, chunksize, processed_data, di, pos, df, buffer,
                    of, stdout, runs, ioErrors >>

\* Mutant of Raise: an exception handler that removes the unfinished artifact.
MutRaiseCleanup ==
    /\ processed_data' =
           [processed_data EXCEPT
               !.files = [n \in DOMAIN @ \ {of} |-> @[n]]]
    /\ of' = NoStream
    /\ pc' = "aborted"

\* Mutant of Raise: gzip.open without the with statement.
MutRaiseNoClose ==
    /\ UNCHANGED << processed_data, of >>
    /\ pc' = "aborted"

\* An exception inside the with block: the stream is closed on the way out
\* and nothing catches it, so the cell ends.
Raise ==
    /\ processed_data' = [processed_data EXCEPT !.files = ExitWith(@)]
    /\ of' = NoStream
    /\ pc' = "aborted"

\* for df in df_iterator (read_json): the next chunk, or the parser's error.
NextJsonChunk ==
    /\ pc = "json"
    /\ pos < Len(CurFile.rows)
    /\ LET lines == Chunk(CurFile.rows, pos, chunksize)
       IN  IF Decodable(lines)
           THEN /\ df' = JsonFrame(lines)
                /\ pos' = pos + Len(lines)
                /\ pc' = "buffer"
                /\ UNCHANGED << processed_data, of >>
           ELSE /\ Raise
                /\ UNCHANGED << df, pos >>
    /\ UNCHANGED << raw_data, chunksize, di, fi, buffer, stdout, runs, ioErrors >>

\* for df in df_iterator (read_csv): the next chunk, or the parser's error.
NextCsvChunk ==
    /\ pc = "csv"
    /\ pos < Len(CurFile.rows)
    /\ LET rows == Chunk(CurFile.rows, pos, chunksize)
       IN  IF Decodable(rows)
           THEN /\ df' = CsvFrame(CurFile.header, rows)
                /\ pos' = pos + Len(rows)
                /\ pc' = "buffer"
                /\ UNCHANGED << processed_data, of >>
           ELSE /\ Raise
                /\ UNCHANGED << df, pos >>
    /\ UNCHANGED << raw_data, chunksize, di, fi, buffer, stdout, runs, ioErrors >>

\* df_iterator is exhausted: the next f.
EndOfFile ==
    /\ pc \in {"json", "csv"}
    /\ pos >= Len(CurFile.rows)
    /\ fi' = fi + 1
    /\ pc' = "files"
    /\ UNCHANGED << raw_data, chunksize, processed_data, di, pos, df, buffer,
                    of, stdout, runs, ioErrors >>

\* Opening or reading the source file fails (OSError).
ReadError ==
    /\ pc \in {"json", "csv"}
    /\ ioErrors < MaxIOErrors
    /\ ioErrors' = ioErrors + 1
    /\ Raise
    /\ UNCHANGED << raw_data, chunksize, di, fi, pos, df, buffer, stdout, runs >>

\* Mutant of NewBuffer: one StringIO kept for every chunk.
MutNewBufferReuse ==
    /\ pc = "buffer"
    /\ pc' = "to_json"
    /\ UNCHANGED << raw_data, chunksize, processed_data, di, fi, pos, df,
                    buffer, of, stdout, runs, ioErrors >>

\* buffer = StringIO()
NewBuffer ==
    /\ pc = "buffer"
    /\ buffer' = [data |-> << >>, pos |-> 0]
    /\ pc' = "to_json"
    /\ UNCHANGED << raw_data, chunksize, processed_data, di, fi, pos, df, of,
                    stdout, runs, ioErrors >>

\* StringIO.write(text) at the stream position.
BufferWrite(b, text) ==
    [data |-> SubSeq(b.data, 1, b.pos) \o text
              \o SubSeq(b.data, b.pos + Len(text) + 1, Len(b.data)),
     pos |-> b.pos + Len(text)]

\* df.to_json(buffer, orient="records", lines=True)
ToJson ==
    /\ pc = "to_json"
    /\ buffer' = BufferWrite(buffer, ToJsonLines(df))
    /\ pc' = "seek"
    /\ UNCHANGED << raw_data, chunksize, processed_data, di, fi, pos, df, of,
                    stdout, runs, ioErrors >>

\* buffer.seek(0)
Seek ==
    /\ pc = "seek"
    /\ buffer' = [buffer EXCEPT !.pos = 0]
    /\ pc' = "write"
    /\ UNCHANGED << raw_data, chunksize, processed_data, di, fi, pos, df, of,
                    stdout, runs, ioErrors >>

\* StringIO.read(): the text from the stream position to the end.
BufferRead(b) == SubSeq(b.data, b.pos + 1, Len(b.data))

\* of.write(buffer.read().encode()), then back to `for df in df_iterator`.
WriteChunk ==
    /\ pc = "write"
    /\ processed_data' =
           [processed_data EXCEPT !.files = GzipWrite(@, of, BufferRead(buffer))]
    /\ buffer' = [buffer EXCEPT !.pos = Len(buffer.data)]
    /\ pc' = Branch(Splitext(CurFile)[2])
    /\ UNCHANGED << raw_data, chunksize, di, fi, pos, df, of, stdout, runs,
                    ioErrors >>

\* os.walk is exhausted: the cell has run to its end.
Finish ==
    /\ pc = "walk"
    /\ di > Len(WalkList)
    /\ pc' = "done"
    /\ UNCHANGED << raw_data, chunksize, processed_data, di, fi, pos, df,
                    buffer, of, stdout, runs, ioErrors >>

\* The cell is executed again in the same kernel, over whatever the earlier
\* execution left in processed_data and in the kernel's variables.
Rerun ==
    /\ pc \in {"done", "aborted"}
    /\ runs < MaxRuns
    /\ runs' = runs + 1
    /\ stdout' = << >>
    /\ pc' = "rmtree"
    /\ UNCHANGED << raw_data, chunksize, processed_data, di, fi, pos, df,
                    buffer, of, ioErrors >>

Next ==
    \/ Rmtree \/ Makedirs
    \/ SkipDir \/ ReportArtifact \/ OpenArtifact \/ CloseArtifact
    \/ ReportFile \/ OpenJson \/ OpenCsv \/ SkipFile
    \/ NextJsonChunk \/ NextCsvChunk \/ EndOfFile \/ ReadError
    \/ NewBuffer \/ ToJson \/ Seek \/ WriteChunk
    \/ Finish \/ Rerun

Spec == Init /\ [][Next]_vars

\* ------------------------------------------- the conversion as a function
\* What the chunk loop makes of a file from position p on: the frames of its
\* successive chunks, one after the other.
RECURSIVE FileRecs(_, _, _)
FileRecs(f, p, cs) ==
    IF p >= Len(f.rows) THEN << >>
    ELSE LET c == Chunk(f.rows, p, cs)
         IN  (IF Splitext(f)[2] = ".json" THEN JsonFrame(c) ELSE CsvFrame(f.header, c))
             \o FileRecs(f, p + cs, cs)

\* What `for f in files` makes of a directory's file list.
SubjectRecs(files, cs) ==
    Concat([i \in 1..Len(files) |->
               IF Branch(Splitext(files[i])[2]) = "skip" THEN << >>
               ELSE FileRecs(files[i], 0, cs)])

\* The directories of the walk that pass `if dirs: continue`.
IsLeaf(e) == e.dirs = << >>
LeafNames(tree) ==
    LET w == Walk(tree, << ".", tree.name >>)
    IN  {Basename(w[j].root) : j \in {i \in 1..Len(w) : IsLeaf(w[i])}}

\* What a complete execution over a reset output directory appends to the
\* artifact called name.
ArtifactRecs(tree, name, cs) ==
    LET w == Walk(tree, << ".", tree.name >>)
    IN  Concat([j \in 1..Len(w) |->
                   IF IsLeaf(w[j]) /\ Basename(w[j].root) = name
                   THEN SubjectRecs(w[j].files, cs) ELSE << >>])

\* ----------------------------------------------------- reading the state
Ids(recs) == [i \in 1..Len(recs) |-> recs[i].id]
Artifacts == DOMAIN processed_data.files
Decoded(name) == ReadBack(processed_data.files[name])
Supported(f) == Splitext(f)[2] \in {".csv", ".json"}
\* The ids of the rows of the .csv and .json files of a file list, in order.
SourceIds(files) ==
    Concat([i \in 1..Len(files) |->
               IF Supported(files[i]) THEN Ids(files[i].rows) ELSE << >>])

\* ------------------------------------------------------------------ claims
\* C1: after a run that completes without error, the artifact of every
\* subject directory decodes to the records of that subject's .csv and .json
\* files, in file-list order then in-file order, each exactly once, and to
\* no record of another subject.
C1_SubjectArtifactIsItsRecords ==
    pc = "done" =>
        \A j \in 1..Len(WalkList) :
            IsLeaf(WalkList[j]) =>
                /\ Basename(WalkList[j].root) \in Artifacts
                /\ Decoded(Basename(WalkList[j].root)).ok
                /\ Ids(Decoded(Basename(WalkList[j].root)).recs)
                       = SourceIds(WalkList[j].files)

\* C2: the decoded record sequence of every artifact of a completed run is
\* the one every other chunksize gives.
C2_ChunkSizeInvariance ==
    pc = "done" =>
        \A name \in Artifacts : \A cs \in ChunkSizes :
            Decoded(name).recs = ArtifactRecs(raw_data, name, cs)

\* C3: every completed execution, the first over a fresh or a left-over
\* output directory and every later one over what an earlier complete or
\* aborted execution left, ends with exactly the artifacts of one execution
\* over a fresh directory, each decoding to the same record sequence.
C3_RerunIsFreshRun ==
    pc = "done" =>
        /\ Artifacts = LeafNames(raw_data)
        /\ \A name \in Artifacts :
               /\ Decoded(name).ok
               /\ Decoded(name).recs = ArtifactRecs(raw_data, name, chunksize)

\* A second execution has completed after the first was aborted by a failed
\* read, and an artifact holds records.
C3_Witness ==
    /\ pc = "done"
    /\ runs = 2
    /\ ioErrors = 1
    /\ \E name \in Artifacts : Decoded(name).recs # << >>

\* The ids of the objects in the members of an artifact.
WrittenIds(artifact) ==
    UNION {{artifact[m].data[i].rec.id :
               i \in {k \in 1..Len(artifact[m].data) : ~artifact[m].data[k].nl}} :
           m \in 1..Len(artifact)}
\* The ids of the rows of the files directly inside directories that have
\* subdirectories.
NonLeafIds ==
    UNION {UNION {{WalkList[j].files[i].rows[k].id :
                      k \in 1..Len(WalkList[j].files[i].rows)} :
                  i \in 1..Len(WalkList[j].files)} :
           j \in {n \in 1..Len(WalkList) : ~IsLeaf(WalkList[n])}}

\* C4: once the output directory is reset, every artifact is named after a
\* directory without subdirectories and holds no record of a file that lies
\* directly in a directory with subdirectories; after a completed run the
\* artifacts are exactly the names of the directories without
\* subdirectories, those without any recognized file included.
C4_ArtifactsAreLeafDirectories ==
    /\ pc \notin {"rmtree", "makedirs"} =>
           \A name \in Artifacts :
               /\ name \in LeafNames(raw_data)
               /\ WrittenIds(processed_data.files[name]) \cap NonLeafIds = {}
    /\ pc = "done" => Artifacts = LeafNames(raw_data)

\* A completed run over a tree with files directly inside a directory that
\* has subdirectories and with a leaf directory without recognized file.
C4_Witness ==
    /\ pc = "done"
    /\ \E j \in 1..Len(WalkList) :
           /\ ~IsLeaf(WalkList[j])
           /\ WalkList[j].files # << >>
           /\ Basename(WalkList[j].root) \notin Artifacts
    /\ \E j \in 1..Len(WalkList) :
           /\ IsLeaf(WalkList[j])
           /\ SourceIds(WalkList[j].files) = << >>
           /\ Basename(WalkList[j].root) \in Artifacts

\* The tree without the files whose extension is neither .csv nor .json.
RECURSIVE StripTree(_)
StripTree(node) ==
    [name |-> node.name,
     dirs |-> [i \in 1..Len(node.dirs) |-> StripTree(node.dirs[i])],
     files |-> SelectSeq(node.files, Supported)]

InChunkLoop == pc \in {"json", "csv", "buffer", "to_json", "seek", "write"}

\* C5: a file whose extension is neither .csv nor .json is never decoded or
\* written, never the file a run aborts in, and a completed run leaves what
\* it leaves over the tree without such files.
C5_UnsupportedFileIsSkipped ==
    /\ InChunkLoop => Supported(CurFile)
    /\ pc = "aborted" => Supported(CurFile)
    /\ pc = "done" =>
           /\ Artifacts = LeafNames(StripTree(raw_data))
           /\ \A name \in Artifacts :
                  Decoded(name).recs
                      = ArtifactRecs(StripTree(raw_data), name, chunksize)

\* A completed run over a subject with an unsupported file followed by a
\* supported one that has rows.
C5_Witness ==
    /\ pc = "done"
    /\ \E j \in 1..Len(WalkList) :
           /\ IsLeaf(WalkList[j])
           /\ \E i, k \in 1..Len(WalkList[j].files) :
                  /\ i < k
                  /\ ~Supported(WalkList[j].files[i])
                  /\ WalkList[j].files[i].rows # << >>
                  /\ Supported(WalkList[j].files[k])
                  /\ WalkList[j].files[k].rows # << >>
                  /\ Len(Decoded(Basename(WalkList[j].root)).recs)
                         = Len(SourceIds(WalkList[j].files))

\* What the run has appended to the artifact called name when it stands in
\* directory d of the walk, at file k, with p rows of that file consumed and
\* their chunks written.
ProgressRecs(name, d, k, p) ==
    Concat([j \in 1..Len(WalkList) |->
        IF ~(IsLeaf(WalkList[j]) /\ Basename(WalkList[j].root) = name) THEN << >>
        ELSE IF j < d THEN SubjectRecs(WalkList[j].files, chunksize)
        ELSE IF j > d THEN << >>
        ELSE SubjectRecs(SubSeq(WalkList[j].files, 1, k - 1), chunksize)
             \o FileRecs([WalkList[j].files[k] EXCEPT !.rows = SubSeq(@, 1, p)],
                         0, chunksize)])

\* C6: when a chunk cannot be decoded (or read) the run ends there: the
\* artifacts are those of the subjects reached so far, and they hold exactly
\* the chunks written before the failing one, none of the failing chunk and
\* nothing of a later chunk, file or subject.
C6_FailFastKeepsFlushed ==
    pc = "aborted" =>
        /\ Artifacts = {Basename(WalkList[j].root) :
                           j \in {i \in 1..di : IsLeaf(WalkList[i])}}
        /\ \A name \in Artifacts :
               Decoded(name).recs = ProgressRecs(name, di, fi, pos)

\* A run aborted by an undecodable chunk after earlier chunks of the same
\* file were written, with a subject still to come.
C6_Witness ==
    /\ pc = "aborted"
    /\ ioErrors = 0
    /\ pos > 0
    /\ ~Decodable(Chunk(CurFile.rows, pos, chunksize))
    /\ Decoded(outfile_name).recs # << >>
    /\ \E j \in (di + 1)..Len(WalkList) : IsLeaf(WalkList[j])

\* C7: when a run has ended, by completion or by an error inside a
\* subject's file loop, no stream is open, every member of every artifact has
\* its trailer, and every artifact reads back as gzip-compressed JSON lines.
C7_StreamsClosedOnExit ==
    pc \in {"done", "aborted"} =>
        /\ of = NoStream
        /\ \A name \in Artifacts :
               /\ \A m \in 1..Len(processed_data.files[name]) :
                      processed_data.files[name][m].trailer
               /\ Decoded(name).ok

\* A run aborted inside a file loop after it wrote records.
C7_Witness ==
    /\ pc = "aborted"
    /\ \E name \in Artifacts : Decoded(name).recs # << >>

\* The number of serialised records a StringIO holds.
BufferedRecs(b) == Cardinality({i \in 1..Len(b.data) : ~b.data[i].nl})

\* C8, as claimed: the chunk and its buffer never hold more than chunksize
\* records, and a chunk's buffer is discarded before the next chunk is read.
C8_BufferDiscardedBeforeNextRead ==
    /\ Len(df) <= chunksize
    /\ BufferedRecs(buffer) <= chunksize
    /\ pc \in {"json", "csv"} => buffer.data = << >>

\* C8, amended: the DataFrame holds at most chunksize records and the buffer
\* the serialisation of at most chunksize records, whatever the file's
\* length; the buffer of a chunk starts empty, holds exactly that chunk's
\* lines and is written from its start (the buffer stays bound, with its
\* text, until the next chunk's buffer replaces it).
C8_ChunkAndBufferBounded ==
    /\ Len(df) <= chunksize
    /\ BufferedRecs(buffer) <= chunksize
    /\ pc = "to_json" => buffer.data = << >>
    /\ pc \in {"seek", "write"} => buffer.data = ToJsonLines(df)
    /\ pc = "write" => BufferRead(buffer) = ToJsonLines(df)

\* The next chunk of a file longer than chunksize is about to be read while
\* the full previous chunk and its buffer are still held.
C8_Witness ==
    /\ pc \in {"json", "csv"}
    /\ 0 < pos
    /\ pos < Len(CurFile.rows)
    /\ Len(df) = chunksize
    /\ BufferedRecs(buffer) = chunksize

\* What a subject has printed when k of its files were reported.
DirLog(e, k) ==
    << Writing(Basename(e.root)) >> \o [i \in 1..k |-> Processing(e.files[i])]
\* The files of the current subject reported so far.
Reported == IF pc = "open" THEN 0 ELSE IF pc = "files" THEN fi - 1 ELSE fi

\* C9: a stream is open only for the artifact reported last, and from the
\* report of an artifact on, stdout ends with that report followed by the
\* reports of the subject's files up to the current one: the artifact is
\* reported before it is opened and before any of its files, a file before
\* any of its chunks is read or written, and when a run aborts the last
\* reported artifact and file are those of the failure.
C9_ReportedBeforeProcessed ==
    /\ of # NoStream => of = outfile_name /\ (pc = "files" \/ pc = "dispatch" \/ InChunkLoop)
    /\ (pc \in {"open", "files", "dispatch", "aborted"} \/ InChunkLoop) =>
           \E i \in 1..Len(stdout) :
               SubSeq(stdout, i, Len(stdout)) = DirLog(Cur, Reported)

\* A run aborted in the second subject reported, its file the last line.
C9_Witness ==
    /\ pc = "aborted"
    /\ Len(stdout) >= 4
    /\ stdout[Len(stdout)] = Processing(CurFile)
    /\ \E i \in 2..Len(stdout) : stdout[i] = Writing(outfile_name)

\* C10: from the reset on every artifact consists of the one gzip member of
\* the one stream opened on it, so no artifact is opened twice in a run, by a
\* reopening or by a second subject directory, and after a completed run
\* that member is closed.
C10_OneStreamPerArtifact ==
    pc \notin {"rmtree", "makedirs"} =>
        \A name \in Artifacts :
            /\ Len(processed_data.files[name]) = 1
            /\ pc = "done" => processed_data.files[name][1].trailer

\* The records an output directory's artifact decodes to, closed or not.
RecsIn(dir, name) == ReadBack(dir.files[name]).recs
IsPrefix(a, b) == Len(a) <= Len(b) /\ SubSeq(b, 1, Len(a)) = a
\* The rows of the .csv and .json files of the subject directories that
\* write the artifact called name.
SourceRowsOf(name) ==
    Concat([j \in 1..Len(WalkList) |->
               IF IsLeaf(WalkList[j]) /\ Basename(WalkList[j].root) = name
               THEN SourceIds(WalkList[j].files) ELSE << >>])

\* C11: from the reset of the output directory to the end of the run every
\* step keeps every artifact and leaves what it decoded to as a prefix of
\* what it decodes to afterwards; and a completed run has written one
\* record per source row, identical rows included.
C11_MonotonicAppend ==
    /\ [][(pc \notin {"rmtree", "makedirs"} /\ pc' \notin {"rmtree", "makedirs"}) =>
             \A name \in DOMAIN processed_data.files :
                 /\ name \in DOMAIN processed_data'.files
                 /\ IsPrefix(RecsIn(processed_data, name), RecsIn(processed_data', name))]_vars
    /\ [](pc = "done" =>
             \A name \in Artifacts :
                 Ids(Decoded(name).recs) = SourceRowsOf(name))

\* A completed run whose artifact holds the same record twice, written by
\* more than one chunk.
C11_Witness ==
    /\ pc = "done"
    /\ \E name \in Artifacts :
           /\ Len(Decoded(name).recs) > chunksize
           /\ \E i, k \in 1..Len(Decoded(name).recs) :
                  i < k /\ Decoded(name).recs[i] = Decoded(name).recs[k]

====
